---- MODULE Spec2Model ----
(***************************************************************************)
(* nl-syntree: a dependency-parse syntax tree rebuilt from a flat,         *)
(* head-indexed token list (providers/google_cloud.py), its traversal and  *)
(* printing (library/document.py) and the triple matchers                  *)
(* (library/operations.py).                                                *)
(*                                                                         *)
(* Token indices are 0-based as in the source; TLA+ sequences are 1-based, *)
(* so the token with index i is all_tokens[i + 1].                         *)
(***************************************************************************)
EXTENDS Integers, Sequences, FiniteSets, TLC

VARIABLES response, doc, call, result

vars == <<response, doc, call, result>>

(***************************************************************************)
(* Bounds of the model.                                                    *)
(***************************************************************************)
\* Longest token array enumerated exhaustively.
MaxTokens == 3
\* Most sentence texts of a response.
MaxSentences == 2

(***************************************************************************)
(* enums.DependencyEdge.Label and enums.PartOfSpeech.Tag: opaque codes     *)
(* that the program only compares and copies.                              *)
(***************************************************************************)
ROOT == "ROOT"
NSUBJ == "NSUBJ"
NSUBJPASS == "NSUBJPASS"
DOBJ == "DOBJ"
POBJ == "POBJ"
PREP == "PREP"
VERB == "VERB"
NOUN == "NOUN"

(***************************************************************************)
(* Python values.                                                          *)
(***************************************************************************)
None == [none |-> TRUE]
IsNone(x) == "none" \in DOMAIN x

\* An exception that left the call: its type.
Raised(type) == [raised |-> type]
IsRaised(x) == "raised" \in DOMAIN x

Min(a, b) == IF a <= b THEN a ELSE b

\* range(n) as a list: 0, 1, ..., n - 1.
Range(n) == [k \in 1..n |-> k - 1]

RECURSIVE Concat(_)
\* The lists of a list of lists, one after the other.
Concat(ss) == IF ss = <<>> THEN <<>> ELSE Head(ss) \o Concat(Tail(ss))

(***************************************************************************)
(* The tokens of a response.                                               *)
(***************************************************************************)
Token(content, lemma, pos_tag, head, label) ==
    [content |-> content, lemma |-> lemma, pos_tag |-> pos_tag,
     head_token_index |-> head, label |-> label]

\* The token with (0-based) index i.
At(all_tokens, i) == all_tokens[i + 1]

(***************************************************************************)
(* library/document.py: Tree.                                              *)
(***************************************************************************)
\* A Tree after __init__ and the assignments of _create_tree.  Nothing in the
\* program sets the two mappings, so they keep the None of __init__.
Tree(index, label, content, lemma, pos_tag, children) ==
    [index |-> index, label |-> label, content |-> content, lemma |-> lemma,
     pos_tag |-> pos_tag, children |-> children,
     pos_tag_mapping |-> None, label_mapping |-> None]

RECURSIVE walk(_)
\* Tree.walk: the node itself, then the walk of each child in child order.
walk(self) ==
    <<self>> \o Concat([k \in 1..Len(self.children) |-> walk(self.children[k])])

\* The filter functions handed to filtered_walk: verb_filter of
\* providers/google_cloud.py, and three that read the root they are given.
FilterFuncs == {"verb_filter", "is_root", "child_of_root", "same_pos_as_root"}

\* verb_filter: True for a verb, and otherwise the None of a function that
\* ends without return, which the `if` of filtered_walk takes as false.
verb_filter(tree, current_node) == current_node.pos_tag = VERB

\* filter_func(root, current_node), as a truth value.
ApplyFilter(filter_func, root, current_node) ==
    CASE filter_func = "verb_filter" -> verb_filter(root, current_node)
      [] filter_func = "is_root" -> current_node.index = root.index
      [] filter_func = "child_of_root" ->
            \E k \in 1..Len(root.children) : root.children[k].index = current_node.index
      [] filter_func = "same_pos_as_root" -> current_node.pos_tag = root.pos_tag

RECURSIVE FilteredWalkLocalRoot(_, _)
\* Mutant: the filter is handed the root of the recursion's own subtree.
FilteredWalkLocalRoot(self, filter_func) ==
    (IF ApplyFilter(filter_func, self, self) THEN <<self>> ELSE <<>>)
    \o Concat([k \in 1..Len(self.children) |->
                  FilteredWalkLocalRoot(self.children[k], filter_func)])

\* Tree.filtered_walk: the nodes of self.walk() that pass filter_func(self, node).
filtered_walk(self, filter_func) ==
    SelectSeq(walk(self), LAMBDA node : ApplyFilter(filter_func, self, node))

RECURSIVE Join(_, _)
\* sep.join(strs)
Join(sep, strs) ==
    IF strs = <<>> THEN ""
    ELSE IF Len(strs) = 1 THEN strs[1]
    ELSE strs[1] \o sep \o Join(sep, Tail(strs))

\* s * n for a string s, which is '' when n <= 0.
Times(s, n) == Join("", [k \in 1..n |-> s])

\* Tree.get_string_repr
get_string_repr(self, verbose) ==
    LET pos_tag == IF IsNone(self.pos_tag_mapping) THEN self.pos_tag
                   ELSE self.pos_tag_mapping[self.pos_tag]
        label == IF IsNone(self.label_mapping) THEN self.label
                 ELSE self.label_mapping[self.label]
    IN  IF verbose
        THEN "Tree(index=" \o ToString(self.index) \o ",label='" \o label
             \o "', content='" \o self.content \o "', lemma='" \o self.lemma
             \o "', pos_tag='" \o pos_tag \o "', children=["
             \o Join(",", [k \in 1..Len(self.children) |->
                              ToString(self.children[k].index)])
             \o "])"
        ELSE self.content \o " (pos_tag=" \o pos_tag \o ", label=" \o label \o ")"

\* An int argument, where None is allowed too.
Some(n) == [int |-> n]

RECURSIVE GetTreeStatementsSameMaxDepth(_, _, _, _)
\* Mutant: the children are given max_depth, not max_depth - 1.
GetTreeStatementsSameMaxDepth(self, max_depth, depth, verbose) ==
    IF ~IsNone(max_depth) /\ max_depth.int = 0 THEN <<>>
    ELSE LET prefix == (IF depth <= 2 THEN "" ELSE Times("   ", depth - 2))
                       \o (IF depth = 1 THEN "" ELSE "|- ")
         IN  <<prefix \o get_string_repr(self, verbose)>>
             \o Concat([k \in 1..Len(self.children) |->
                           GetTreeStatementsSameMaxDepth(self.children[k], max_depth,
                                                         depth + 1, verbose)])

RECURSIVE _get_tree_statements(_, _, _, _)
\* Tree._get_tree_statements: max_depth is None or Some(n).
_get_tree_statements(self, max_depth, depth, verbose) ==
    IF ~IsNone(max_depth) /\ max_depth.int = 0 THEN <<>>
    ELSE LET next_depth == depth + 1
             next_max_depth == IF IsNone(max_depth) THEN None
                               ELSE Some(max_depth.int - 1)
             prefix == (IF depth <= 2 THEN "" ELSE Times("   ", depth - 2))
                       \o (IF depth = 1 THEN "" ELSE "|- ")
         IN  <<prefix \o get_string_repr(self, verbose)>>
             \o Concat([k \in 1..Len(self.children) |->
                           _get_tree_statements(self.children[k], next_max_depth,
                                                next_depth, verbose)])

\* Tree.get_printable_tree
get_printable_tree(self, max_depth, verbose) ==
    Join("\n", _get_tree_statements(self, max_depth, 1, verbose))

(***************************************************************************)
(* providers/google_cloud.py: _create_tree.                                *)
(***************************************************************************)
\* Mutant: only the tokens after the head are scanned.
ChildIndicesAfterHead(token_index, all_tokens) ==
    SelectSeq(Range(Len(all_tokens)),
              LAMBDA i : /\ At(all_tokens, i).label # ROOT
                         /\ At(all_tokens, i).head_token_index = token_index
                         /\ i > token_index)

\* Mutant: the head is told from its children by its index, not by the
\* ROOT label.
ChildIndicesNotSelf(token_index, all_tokens) ==
    SelectSeq(Range(Len(all_tokens)),
              LAMBDA i : /\ i # token_index
                         /\ At(all_tokens, i).head_token_index = token_index)

\* Mutant: the token array is scanned from its end.
ChildIndicesReversed(token_index, all_tokens) ==
    LET n == Len(all_tokens)
    IN  SelectSeq([k \in 1..n |-> n - k],
                  LAMBDA i : /\ At(all_tokens, i).label # ROOT
                             /\ At(all_tokens, i).head_token_index = token_index)

\* The indices the list comprehension of _create_tree recurses on, in
\* enumerate order.
ChildIndices(token_index, all_tokens) ==
    SelectSeq(Range(Len(all_tokens)),
              LAMBDA i : /\ At(all_tokens, i).label # ROOT
                         /\ At(all_tokens, i).head_token_index = token_index)

RECURSIVE CreateTreeDepth(_, _, _)
\* _create_tree with `depth` frames left.  DEBUG is False, so lines 54-60
\* (a print) are never run.  A recursion that runs out of
\* frames ends in Python's RecursionError, which leaves every enclosing call.
CreateTreeDepth(token_index, all_tokens, depth) ==
    IF depth = 0 THEN Raised("RecursionError")
    ELSE LET token == At(all_tokens, token_index)
             idx == ChildIndices(token_index, all_tokens)
             children == [k \in 1..Len(idx) |->
                             CreateTreeDepth(idx[k], all_tokens, depth - 1)]
         IN  IF \E k \in 1..Len(idx) : IsRaised(children[k])
             THEN Raised("RecursionError")
             ELSE Tree(token_index, token.label, token.content, token.lemma,
                       token.pos_tag, children)

\* A chain of calls longer than the token array repeats an index and so
\* never ends by itself: it is the one that exhausts the interpreter's stack.
_create_tree(token_index, all_tokens) ==
    CreateTreeDepth(token_index, all_tokens, Len(all_tokens) + 1)

(***************************************************************************)
(* providers/google_cloud.py: create_nlst_document_from_response.          *)
(***************************************************************************)
\* library/document.py: Sentence and Document, told apart (isinstance) by
\* their attributes.
Sentence(content, root) == [content |-> content, root |-> root]
Document(language, sentences) == [language |-> language, sentences |-> sentences]
IsSentence(x) == "root" \in DOMAIN x
IsDocument(x) == "sentences" \in DOMAIN x

sentence_root_indices(tokens) ==
    SelectSeq(Range(Len(tokens)), LAMBDA index : At(tokens, index).label = ROOT)

\* Mutant: the sentence texts and the roots must pair up one to one.
CreateDocumentStrict(resp) ==
    LET roots == sentence_root_indices(resp.tokens)
        n == Len(roots)
        trees == [k \in 1..n |-> _create_tree(roots[k], resp.tokens)]
    IN  IF Len(resp.sentences) # n THEN Raised("ValueError")
        ELSE IF \E k \in 1..n : IsRaised(trees[k]) THEN Raised("RecursionError")
        ELSE Document(resp.language,
                      [k \in 1..n |-> Sentence(resp.sentences[k], trees[k])])

create_nlst_document_from_response(resp) ==
    LET roots == sentence_root_indices(resp.tokens)
        n == Min(Len(resp.sentences), Len(roots))
        trees == [k \in 1..n |-> _create_tree(roots[k], resp.tokens)]
    IN  IF \E k \in 1..n : IsRaised(trees[k])
        THEN Raised("RecursionError")
        ELSE Document(resp.language,
                      [k \in 1..n |-> Sentence(resp.sentences[k], trees[k])])

(***************************************************************************)
(* library/operations.py.  A matcher is a generator; what its consumer     *)
(* gets is the triples yielded, in order, and the exception that ended it, *)
(* if one did.                                                             *)
(***************************************************************************)
Yielded(out, raised) == [out |-> out, raised |-> raised]
NoError == ""

\* Lines 39-50: the triples of one head node.
NodeTriples(node, left_label, right_label) ==
    LET left_deps == SelectSeq(node.children, LAMBDA child : child.label = left_label)
        right_deps == SelectSeq(node.children,
                                LAMBDA child : /\ child.label # left_label
                                               /\ child.label = right_label)
    IN  Concat([i \in 1..Len(left_deps) |->
                   [j \in 1..Len(right_deps) |-> <<left_deps[i], node, right_deps[j]>>]])

\* Lines 35-50: the triples of one sentence.
SentenceTriples(sentence, left_label, head_pos_tag, right_label) ==
    LET nodes == walk(sentence.root)
    IN  Concat([k \in 1..Len(nodes) |->
                   IF nodes[k].pos_tag # head_pos_tag THEN <<>>
                   ELSE NodeTriples(nodes[k], left_label, right_label)])

\* Lines 34-50: the triples of the sentences, one sentence after the other.
SentencesTriples(sentences, left_label, head_pos_tag, right_label) ==
    Concat([k \in 1..Len(sentences) |->
               SentenceTriples(sentences[k], left_label, head_pos_tag, right_label)])

\* Mutant: what is not a Document is taken for a Sentence if it has a root,
\* and otherwise for a document without sentences.
FindGenericTriplesUnchecked(doc_or_sentence, left_label, head_pos_tag, right_label) ==
    IF IsDocument(doc_or_sentence)
    THEN Yielded(SentencesTriples(doc_or_sentence.sentences, left_label,
                                  head_pos_tag, right_label), NoError)
    ELSE IF IsSentence(doc_or_sentence)
    THEN Yielded(SentencesTriples(<<doc_or_sentence>>, left_label,
                                  head_pos_tag, right_label), NoError)
    ELSE Yielded(<<>>, NoError)

\* The TypeError of line 32 is raised when the generator is first advanced,
\* before anything is yielded.
find_generic_triples(doc_or_sentence, left_label, head_pos_tag, right_label) ==
    IF IsDocument(doc_or_sentence)
    THEN Yielded(SentencesTriples(doc_or_sentence.sentences, left_label,
                                  head_pos_tag, right_label), NoError)
    ELSE IF IsSentence(doc_or_sentence)
    THEN Yielded(SentencesTriples(<<doc_or_sentence>>, left_label,
                                  head_pos_tag, right_label), NoError)
    ELSE Yielded(<<>>, "TypeError")

\* Mutant: the leftmost list advances fastest.
ProductLeftFastest(as, bs, cs) ==
    Concat([k \in 1..Len(cs) |->
               Concat([j \in 1..Len(bs) |->
                          [i \in 1..Len(as) |-> <<as[i], bs[j], cs[k]>>]])])

\* itertools.product of three lists: the rightmost advances fastest.
Product(as, bs, cs) ==
    LET step(acc, pool) ==
            Concat([i \in 1..Len(acc) |->
                       [j \in 1..Len(pool) |-> Append(acc[i], pool[j])]])
    IN  step(step(step(<<<<>>>>, as), bs), cs)

RECURSIVE MultiOver(_, _)
\* The loop of find_generic_triples_multi_criteria over the combinations
\* left: an exception of the inner generator ends the outer one.
MultiOver(doc_or_sentence, combos) ==
    IF combos = <<>> THEN Yielded(<<>>, NoError)
    ELSE LET c == Head(combos)
             first == find_generic_triples(doc_or_sentence, c[1], c[2], c[3])
         IN  IF first.raised # NoError THEN first
             ELSE LET rest == MultiOver(doc_or_sentence, Tail(combos))
                  IN  Yielded(first.out \o rest.out, rest.raised)

find_generic_triples_multi_criteria(doc_or_sentence, left_labels, head_pos_tags, right_labels) ==
    MultiOver(doc_or_sentence, Product(left_labels, head_pos_tags, right_labels))

(***************************************************************************)
(* providers/google_cloud.py: find_verb_triples.                           *)
(***************************************************************************)
\* Mutant: the passive voice looks for DOBJ where it should for POBJ.
FindVerbTriplesPassiveDobj(doc_or_sentence, active_voice, passive_voice) ==
    LET active == IF active_voice
                  THEN find_generic_triples_multi_criteria(
                           doc_or_sentence, <<NSUBJ>>, <<VERB>>, <<DOBJ, PREP>>)
                  ELSE Yielded(<<>>, NoError)
    IN  IF active.raised # NoError THEN active
        ELSE LET passive == IF passive_voice
                            THEN find_generic_triples_multi_criteria(
                                     doc_or_sentence, <<NSUBJPASS>>, <<VERB>>,
                                     <<DOBJ, PREP>>)
                            ELSE Yielded(<<>>, NoError)
             IN  Yielded(active.out \o passive.out, passive.raised)

find_verb_triples(doc_or_sentence, active_voice, passive_voice) ==
    LET active == IF active_voice
                  THEN find_generic_triples_multi_criteria(
                           doc_or_sentence, <<NSUBJ>>, <<VERB>>, <<DOBJ, PREP>>)
                  ELSE Yielded(<<>>, NoError)
    IN  IF active.raised # NoError THEN active
        ELSE LET passive == IF passive_voice
                            THEN find_generic_triples_multi_criteria(
                                     doc_or_sentence, <<NSUBJPASS>>, <<VERB>>,
                                     <<POBJ, PREP>>)
                            ELSE Yielded(<<>>, NoError)
             IN  Yielded(active.out \o passive.out, passive.raised)

(***************************************************************************)
(* Inputs.                                                                 *)
(***************************************************************************)
Word(i) == "w" \o ToString(i)
Lemma(i) == "l" \o ToString(i)
Text(k) == "s" \o ToString(k)

\* The part of speech the build inputs give a label: the build only copies it.
PosOf(label) == IF label = ROOT THEN VERB ELSE NOUN

BuildLabels == {ROOT, NSUBJ, DOBJ}

\* The array of n tokens with the labels lab and the head indices hd.
BuildTokens(n, lab, hd) ==
    [k \in 1..n |-> Token(Word(k - 1), Lemma(k - 1), PosOf(lab[k]), hd[k], lab[k])]

Texts(s) == [k \in 1..s |-> Text(k)]

Response(tokens, s) == [language |-> "en", sentences |-> Texts(s), tokens |-> tokens]

NumRoots(tokens) == Len(sentence_root_indices(tokens))

\* The token arrays of sentences written out in full.
\* "The cat chased the mouse"
CatChasedMouse ==
    <<Token("The", "the", "DET", 1, "DET"), Token("cat", "cat", NOUN, 2, NSUBJ),
      Token("chased", "chase", VERB, 2, ROOT), Token("the", "the", "DET", 4, "DET"),
      Token("mouse", "mouse", NOUN, 2, DOBJ)>>

\* A verb with two NSUBJ and two DOBJ children.
TwoSubjectsTwoObjects ==
    <<Token("Tom", "Tom", NOUN, 2, NSUBJ), Token("Ann", "Ann", NOUN, 2, NSUBJ),
      Token("saw", "see", VERB, 2, ROOT), Token("Bob", "Bob", NOUN, 2, DOBJ),
      Token("Sue", "Sue", NOUN, 2, DOBJ)>>

\* "Tom saw Bob. Bob was seen by Tom": an active and a passive sentence.
ActiveThenPassive ==
    <<Token("Tom", "Tom", NOUN, 1, NSUBJ), Token("saw", "see", VERB, 1, ROOT),
      Token("Bob", "Bob", NOUN, 1, DOBJ), Token("Bob", "Bob", NOUN, 5, NSUBJPASS),
      Token("was", "be", VERB, 5, "AUXPASS"), Token("seen", "see", VERB, 5, ROOT),
      Token("by", "by", "ADP", 5, PREP), Token("Tom", "Tom", NOUN, 6, POBJ)>>

\* A verb with a child of each label the verb triples look for.
EveryDependent ==
    <<Token("a", "a", NOUN, 3, NSUBJPASS), Token("b", "b", NOUN, 3, PREP),
      Token("c", "c", NOUN, 3, NSUBJ), Token("v", "v", VERB, 3, ROOT),
      Token("d", "d", NOUN, 3, POBJ), Token("e", "e", NOUN, 3, DOBJ)>>

\* Five tokens, each the head of the next.
Chain ==
    <<Token("v", "v", VERB, 0, ROOT), Token("p", "p", "ADP", 0, PREP),
      Token("n", "n", NOUN, 1, POBJ), Token("q", "q", "ADP", 2, PREP),
      Token("m", "m", VERB, 3, POBJ)>>

\* A malformed array: two ROOT tokens, the second with the first as its
\* head, and a token that is its own head without being labelled ROOT.
TwoRootsAndLoop ==
    <<Token("a", "a", NOUN, 1, NSUBJ), Token("v", "v", VERB, 1, ROOT),
      Token("b", "b", NOUN, 1, DOBJ), Token("w", "w", VERB, 1, ROOT),
      Token("c", "c", NOUN, 4, DOBJ)>>

Scenarios == {CatChasedMouse, TwoSubjectsTwoObjects, ActiveThenPassive,
              EveryDependent, Chain}

\* What the token with index i of a well-formed array may be: a sentence
\* root, or a dependent of an earlier token.
TreeTokensAt(i, labels) ==
    {Token(Word(i), Lemma(i), pos, i, ROOT) : pos \in {VERB, NOUN}}
    \cup {Token(Word(i), Lemma(i), pos, hd, lab) :
             pos \in {VERB, NOUN}, hd \in 0..(i - 1), lab \in labels}

RECURSIVE TreeTokens(_, _)
\* The well-formed arrays of n tokens with the dependency labels `labels`:
\* every shape of ordered forest on n nodes.
TreeTokens(n, labels) ==
    IF n = 0 THEN {<<>>}
    ELSE {Append(a, t) : a \in TreeTokens(n - 1, labels), t \in TreeTokensAt(n - 1, labels)}

\* The responses whose sentences are the trees of `labels`, and the
\* sentences written out.
TreeResponses(labels) ==
    {Response(tokens, NumRoots(tokens)) :
        tokens \in (UNION {TreeTokens(n, labels) : n \in 1..MaxTokens}) \cup Scenarios}

\* No call made yet.
NoCall == [op |-> "none"]

(***************************************************************************)
(* The build: a response is analysed, and its trees are walked.            *)
(***************************************************************************)
\* Every token array of up to MaxTokens tokens with in-bounds head indices,
\* well formed or not, and two arrays written out; with any number of
\* sentence texts.
InitBuild ==
    /\ \E s \in 0..MaxSentences :
          \/ \E n \in 1..MaxTokens :
                \E lab \in [1..n -> BuildLabels], hd \in [1..n -> 0..(n - 1)] :
                    response = Response(BuildTokens(n, lab, hd), s)
          \/ \E tokens \in {CatChasedMouse, TwoRootsAndLoop} :
                response = Response(tokens, s)
    /\ doc = None
    /\ call = NoCall
    /\ result = None

\* The program is single-threaded: a call starts when the one before it has
\* returned and its caller is done with what it returned.
Idle == call = NoCall

CreateDocument ==
    /\ Idle
    /\ result' = create_nlst_document_from_response(response)
    /\ doc' = IF IsRaised(result') THEN doc ELSE result'
    /\ call' = [op |-> "create_nlst_document_from_response"]
    /\ UNCHANGED response

\* _create_tree called on any index of the token array.
CreateTree ==
    \E i \in 0..(Len(response.tokens) - 1) :
        /\ Idle
        /\ result' = _create_tree(i, response.tokens)
        /\ call' = [op |-> "_create_tree", token_index |-> i]
        /\ UNCHANGED <<response, doc>>

\* walk() of a sentence's root, as a list.
Walk ==
    /\ Idle
    /\ ~IsNone(doc)
    /\ \E k \in 1..Len(doc.sentences) :
          /\ result' = [nodes |-> walk(doc.sentences[k].root)]
          /\ call' = [op |-> "walk", sentence |-> k]
    /\ UNCHANGED <<response, doc>>

\* The caller drops the value it was returned.
Return ==
    /\ ~Idle
    /\ call' = NoCall
    /\ result' = None
    /\ UNCHANGED <<response, doc>>

NextBuild == CreateDocument \/ CreateTree \/ Walk \/ Return

SpecBuild == InitBuild /\ [][NextBuild]_vars

(***************************************************************************)
(* Properties of the build.                                                *)
(***************************************************************************)
NumTokens == Len(response.tokens)
TokenIndices == 0..(NumTokens - 1)
RootLabelled == {i \in TokenIndices : At(response.tokens, i).label = ROOT}
HeadOf(i) == At(response.tokens, i).head_token_index

RECURSIVE HeadChain(_, _)
\* The token that k head references lead to from token i.
HeadChain(i, k) == IF k = 0 THEN i ELSE HeadChain(HeadOf(i), k - 1)

\* One ROOT-labelled token, which is its own head, and which the head
\* references of every token lead to.
WellFormed ==
    \E r \in TokenIndices :
        /\ RootLabelled = {r}
        /\ HeadOf(r) = r
        /\ \A i \in TokenIndices : \E k \in 0..NumTokens : HeadChain(i, k) = r

\* The indices of a list of nodes.
IndicesOf(nodes) == [k \in 1..Len(nodes) |-> nodes[k].index]
Occurrences(seq, x) == Cardinality({k \in 1..Len(seq) : seq[k] = x})
Ascending(seq) == \A k \in 1..(Len(seq) - 1) : seq[k] < seq[k + 1]

\* C1: walking the tree built from the ROOT token of a well-formed array of
\* N tokens yields N nodes, every index 0..N-1 exactly once.
C1_WalkYieldsEveryTokenOnce ==
    (call.op = "walk" /\ WellFormed) =>
        /\ Len(result.nodes) = NumTokens
        /\ \A i \in TokenIndices : Occurrences(IndicesOf(result.nodes), i) = 1

\* The tree of a well-formed array of three or more tokens, whose root is
\* not the first token, has been walked.
C1_Witness ==
    /\ call.op = "walk"
    /\ WellFormed
    /\ NumTokens >= 3
    /\ result.nodes[1].index > 0
    /\ Len(result.nodes) >= 3

\* The i-th ROOT-labelled token in token order.
KthRoot(i) == CHOOSE j \in RootLabelled : Cardinality({x \in RootLabelled : x < j}) = i - 1

\* C6: a response with S sentence texts and R ROOT tokens gives, without
\* error, a Document of min(S, R) sentences, the i-th with the i-th text and
\* a root built for the i-th ROOT token.
C6_DocumentPairsTextsAndRoots ==
    call.op = "create_nlst_document_from_response" =>
        /\ ~IsRaised(result)
        /\ Len(result.sentences) = Min(Len(response.sentences), Cardinality(RootLabelled))
        /\ \A i \in 1..Len(result.sentences) :
              /\ result.sentences[i].content = response.sentences[i]
              /\ result.sentences[i].root.index = KthRoot(i)

\* Fewer texts than ROOT tokens, and two sentences built.
C6_Witness ==
    /\ call.op = "create_nlst_document_from_response"
    /\ ~IsRaised(result)
    /\ Len(response.sentences) < Cardinality(RootLabelled)
    /\ Len(result.sentences) = 2
    /\ result.sentences[2].root.index = KthRoot(2)

\* The node is the one _create_tree makes of token j.
NodeOfToken(node, j) ==
    LET token == At(response.tokens, j)
    IN  /\ node.index = j
        /\ node.label = token.label
        /\ node.content = token.content
        /\ node.lemma = token.lemma
        /\ node.pos_tag = token.pos_tag

\* The children of node are nodes of the tokens `of`, one each, in
\* ascending index order.
ChildrenAre(node, of) ==
    LET idx == IndicesOf(node.children)
    IN  /\ Ascending(idx)
        /\ {idx[k] : k \in 1..Len(idx)} = of
        /\ \A k \in 1..Len(idx) : NodeOfToken(node.children[k], idx[k])

\* C7 as stated: every node built for an index i has as children the nodes of
\* every other token whose head_index is i, in ascending index order, and
\* never a node of token i.
C7_ChildrenAreAllOtherDependents ==
    (call.op = "_create_tree" /\ ~IsRaised(result)) =>
        \A n \in {walk(result)[k] : k \in 1..Len(walk(result))} :
            /\ ChildrenAre(n, {j \in TokenIndices \ {n.index} : HeadOf(j) = n.index})
            /\ \A k \in 1..Len(n.children) : n.children[k].index # n.index

\* C7, amended: the children are the nodes of every token that is not
\* labelled ROOT and whose head_index is i.
C7_ChildrenAreNonRootDependents ==
    (call.op = "_create_tree" /\ ~IsRaised(result)) =>
        \A n \in {walk(result)[k] : k \in 1..Len(walk(result))} :
            /\ ChildrenAre(n, {j \in TokenIndices :
                                  /\ At(response.tokens, j).label # ROOT
                                  /\ HeadOf(j) = n.index})
            /\ \A k \in 1..Len(n.children) : n.children[k].index # n.index

\* A tree was built whose root has two children, one before and one after
\* it, while a ROOT-labelled token elsewhere names a node of the tree as
\* its head.
C7_Witness ==
    /\ call.op = "_create_tree"
    /\ ~IsRaised(result)
    /\ Len(result.children) = 2
    /\ result.children[1].index < result.index
    /\ result.index < result.children[2].index
    /\ \E j \in RootLabelled : j # result.index /\ HeadOf(j) = result.index

\* C10: started at a ROOT-labelled token of any array with in-bounds heads,
\* _create_tree ends, and its tree holds no index twice and no ROOT-labelled
\* node but its root.
C10_BuildFromRootEnds ==
    (call.op = "_create_tree" /\ call.token_index \in RootLabelled) =>
        /\ ~IsRaised(result)
        /\ \A i \in TokenIndices : Occurrences(IndicesOf(walk(result)), i) <= 1
        /\ \A k \in 2..Len(walk(result)) : walk(result)[k].label # ROOT

\* Built from a ROOT token of an array with two ROOT tokens, one of them the
\* head of the other, and with two tokens that are each other's head.
C10_Witness ==
    /\ call.op = "_create_tree"
    /\ call.token_index \in RootLabelled
    /\ ~IsRaised(result)
    /\ \E j \in RootLabelled : j # call.token_index /\ HeadOf(j) = call.token_index
    /\ \E i \in TokenIndices : HeadOf(i) # i /\ HeadOf(HeadOf(i)) = i

(***************************************************************************)
(* Traversal and printing of the trees of a document.                      *)
(***************************************************************************)
\* Largest max_depth handed to get_printable_tree.
MaxDepthArg == 4

MaxDepths == {None} \cup {Some(d) : d \in 0..MaxDepthArg}

WalkLabels == {NSUBJ, DOBJ}

\* Every node, at any depth, of the trees of a document.
NodesOf(d) ==
    UNION {{walk(d.sentences[k].root)[j] : j \in 1..Len(walk(d.sentences[k].root))} :
              k \in 1..Len(d.sentences)}

InitWalk ==
    /\ response \in TreeResponses(WalkLabels)
    /\ doc = None
    /\ call = NoCall
    /\ result = None

\* filtered_walk() of a node, as a list.
FilteredWalk ==
    /\ Idle
    /\ ~IsNone(doc)
    /\ \E self \in NodesOf(doc), filter_func \in FilterFuncs :
          /\ result' = [nodes |-> filtered_walk(self, filter_func)]
          /\ call' = [op |-> "filtered_walk", self |-> self, filter_func |-> filter_func]
    /\ UNCHANGED <<response, doc>>

\* get_printable_tree() of a node: the string, and the statements it joins.
PrintTree ==
    /\ Idle
    /\ ~IsNone(doc)
    /\ \E self \in NodesOf(doc), max_depth \in MaxDepths, verbose \in BOOLEAN :
          /\ result' = [statements |-> _get_tree_statements(self, max_depth, 1, verbose),
                        text |-> get_printable_tree(self, max_depth, verbose)]
          /\ call' = [op |-> "get_printable_tree", self |-> self,
                      max_depth |-> max_depth, verbose |-> verbose]
    /\ UNCHANGED <<response, doc>>

NextWalk == CreateDocument \/ Walk \/ FilteredWalk \/ PrintTree \/ Return

SpecWalk == InitWalk /\ [][NextWalk]_vars

\* The k-th smallest member of a set of numbers.
Kth(set, k) == CHOOSE j \in set : Cardinality({x \in set : x < j}) = k - 1

\* C8: n.filtered_walk(p) is the subsequence of n.walk(), in its order, of the
\* nodes c with p(n, c), where n is the node filtered_walk was called on.
C8_FilteredWalkIsSubsequenceOfWalk ==
    call.op = "filtered_walk" =>
        LET w == walk(call.self)
            pass == {j \in 1..Len(w) : ApplyFilter(call.filter_func, call.self, w[j])}
        IN  /\ Len(result.nodes) = Cardinality(pass)
            /\ \A k \in 1..Len(result.nodes) : result.nodes[k] = w[Kth(pass, k)]

\* filtered_walk was called on an inner node that has descendants, with a
\* filter that reads its first argument, and kept some nodes and dropped
\* others.
C8_Witness ==
    /\ call.op = "filtered_walk"
    /\ call.self.label # ROOT
    /\ call.filter_func = "child_of_root"
    /\ Len(result.nodes) >= 1
    /\ Len(walk(call.self)) > Len(result.nodes) + 1

RECURSIVE WalkDepths(_, _)
\* The nodes below and including `node` in pre-order, each with its depth,
\* `node` itself at depth d.
WalkDepths(node, d) ==
    <<[node |-> node, depth |-> d]>>
    \o Concat([k \in 1..Len(node.children) |-> WalkDepths(node.children[k], d + 1)])

\* C9: get_printable_tree gives one line per node of depth (root = 1) at
\* most max_depth, every node when max_depth is None, in pre-order; the line
\* of a node of depth 1 has no prefix, and that of a node of depth d >= 2
\* has '   ' d - 2 times and '|- ' before the node's own string.
C9_PrintedLinesAndPrefixes ==
    call.op = "get_printable_tree" =>
        LET shown == SelectSeq(WalkDepths(call.self, 1),
                               LAMBDA p : \/ IsNone(call.max_depth)
                                          \/ p.depth <= call.max_depth.int)
        IN  /\ Len(result.statements) = Len(shown)
            /\ \A k \in 1..Len(shown) :
                  result.statements[k] =
                      (IF shown[k].depth = 1 THEN ""
                       ELSE Times("   ", shown[k].depth - 2) \o "|- ")
                      \o get_string_repr(shown[k].node, call.verbose)
            /\ result.text = Join("\n", result.statements)

\* A tree of five levels was printed down to its fourth.
C9_Witness ==
    /\ call.op = "get_printable_tree"
    /\ ~IsNone(call.max_depth)
    /\ call.max_depth.int = 4
    /\ Len(walk(call.self)) = 5
    /\ Len(result.statements) = 4
    /\ result.statements[4] = "      |- q (pos_tag=ADP, label=PREP)"

(***************************************************************************)
(* The matchers, each consumed to its end as in list(...).                 *)
(***************************************************************************)
MatchLabels == {NSUBJ, DOBJ, PREP}

\* The criteria the matchers are called with.
ArgLabels == {NSUBJ, DOBJ, PREP}
ArgPosTags == {VERB, NOUN}
LeftLists == {<<>>, <<NSUBJ>>, <<NSUBJ, NSUBJPASS>>, <<DOBJ, NSUBJ>>}
PosLists == {<<>>, <<VERB>>, <<NOUN, VERB>>}
RightLists == {<<>>, <<DOBJ>>, <<DOBJ, PREP>>, <<NSUBJ, DOBJ>>}

\* What a caller may hand a matcher as doc_or_sentence: the document, one of
\* its sentences, or something that is neither: a Tree, or None.
SourcesOf(d) ==
    {None}
    \cup (IF IsNone(d) THEN {}
          ELSE {d} \cup {d.sentences[k] : k \in 1..Len(d.sentences)}
                   \cup {d.sentences[k].root : k \in 1..Min(1, Len(d.sentences))})

ValidSource(x) == IsDocument(x) \/ IsSentence(x)

InitMatch ==
    /\ response \in TreeResponses(MatchLabels)
    /\ doc = None
    /\ call = NoCall
    /\ result = None

FindGenericTriples ==
    /\ Idle
    /\ \E source \in SourcesOf(doc), left_label \in ArgLabels,
          head_pos_tag \in ArgPosTags, right_label \in ArgLabels :
          /\ result' = find_generic_triples(source, left_label, head_pos_tag, right_label)
          /\ call' = [op |-> "find_generic_triples", source |-> source,
                      left_label |-> left_label, head_pos_tag |-> head_pos_tag,
                      right_label |-> right_label]
    /\ UNCHANGED <<response, doc>>

FindGenericTriplesMultiCriteria ==
    /\ Idle
    /\ \E source \in SourcesOf(doc), left_labels \in LeftLists,
          head_pos_tags \in PosLists, right_labels \in RightLists :
          /\ result' = find_generic_triples_multi_criteria(
                           source, left_labels, head_pos_tags, right_labels)
          /\ call' = [op |-> "find_generic_triples_multi_criteria", source |-> source,
                      left_labels |-> left_labels, head_pos_tags |-> head_pos_tags,
                      right_labels |-> right_labels]
    /\ UNCHANGED <<response, doc>>

FindVerbTriples ==
    /\ Idle
    /\ \E source \in SourcesOf(doc), active_voice \in BOOLEAN, passive_voice \in BOOLEAN :
          /\ result' = find_verb_triples(source, active_voice, passive_voice)
          /\ call' = [op |-> "find_verb_triples", source |-> source,
                      active_voice |-> active_voice, passive_voice |-> passive_voice]
    /\ UNCHANGED <<response, doc>>

NextMatch ==
    \/ CreateDocument
    \/ FindGenericTriples
    \/ FindGenericTriplesMultiCriteria
    \/ FindVerbTriples
    \/ Return

SpecMatch == InitMatch /\ [][NextMatch]_vars

\* The sentences of a Document or of a Sentence.
SearchedSentences(source) == IF IsDocument(source) THEN source.sentences ELSE <<source>>

\* The nodes of the sentences in visiting order: sentence after sentence,
\* each in pre-order.
VisitedNodes(source) ==
    Concat([k \in 1..Len(SearchedSentences(source)) |->
               walk(SearchedSentences(source)[k].root)])

\* For each visited head with the part of speech p, in visiting order, the
\* triples (l, head, r) of its children l labelled ll and r labelled rl, l
\* in the outer loop and r in the inner one.
CrossProducts(source, ll, p, rl) ==
    LET heads == SelectSeq(VisitedNodes(source), LAMBDA n : n.pos_tag = p)
        lefts(h) == SelectSeq(h.children, LAMBDA c : c.label = ll)
        rights(h) == SelectSeq(h.children, LAMBDA c : c.label = rl)
    IN  Concat([k \in 1..Len(heads) |->
                   Concat([i \in 1..Len(lefts(heads[k])) |->
                              [j \in 1..Len(rights(heads[k])) |->
                                  <<lefts(heads[k])[i], heads[k], rights(heads[k])[j]>>]])])

\* C2: for labels equal or different, find_generic_triples yields for each
\* visited head with pos_tag = head_pos_tag the triples (l, head, r) of every
\* child l labelled left_label and every child r labelled right_label: m * k
\* triples for m such l and k such r.
C2_GenericTriplesAreCrossProducts ==
    (call.op = "find_generic_triples" /\ ValidSource(call.source)) =>
        /\ result.raised = NoError
        /\ result.out = CrossProducts(call.source, call.left_label,
                                      call.head_pos_tag, call.right_label)

\* C2 for two different labels, which is what the code does.
GenericTriplesOfDifferentLabels ==
    (/\ call.op = "find_generic_triples"
     /\ ValidSource(call.source)
     /\ call.left_label # call.right_label) =>
        /\ result.raised = NoError
        /\ result.out = CrossProducts(call.source, call.left_label,
                                      call.head_pos_tag, call.right_label)

\* Equal labels yield nothing, whatever the children.
GenericTriplesOfEqualLabels ==
    (/\ call.op = "find_generic_triples"
     /\ ValidSource(call.source)
     /\ call.left_label = call.right_label) =>
        result = Yielded(<<>>, NoError)

\* Two subjects and two objects of one verb were matched: four triples.
GenericTriplesWitness ==
    /\ call.op = "find_generic_triples"
    /\ IsDocument(call.source)
    /\ Len(result.out) = 4
    /\ result.out[2][1] = result.out[1][1]
    /\ result.out[2][3] # result.out[1][3]

\* The outputs of find_generic_triples for every combination, left_labels in
\* the outermost loop and right_labels in the innermost.
NestedLoops(source, left_labels, head_pos_tags, right_labels) ==
    Concat([i \in 1..Len(left_labels) |->
       Concat([j \in 1..Len(head_pos_tags) |->
          Concat([k \in 1..Len(right_labels) |->
             find_generic_triples(source, left_labels[i], head_pos_tags[j],
                                  right_labels[k]).out])])])

\* C3: find_generic_triples_multi_criteria yields the outputs of
\* find_generic_triples for all combinations one after the other, left_labels
\* outermost, head_pos_tags in the middle, right_labels innermost; with lists
\* of one element each it yields what find_generic_triples does.
C3_MultiCriteriaIsNestedLoops ==
    call.op = "find_generic_triples_multi_criteria" =>
        /\ result.out = NestedLoops(call.source, call.left_labels,
                                    call.head_pos_tags, call.right_labels)
        /\ (/\ Len(call.left_labels) = 1
            /\ Len(call.head_pos_tags) = 1
            /\ Len(call.right_labels) = 1) =>
               result = find_generic_triples(call.source, call.left_labels[1],
                                             call.head_pos_tags[1], call.right_labels[1])

\* Two left and two right labels, and a triple for each of the four pairs.
C3_Witness ==
    /\ call.op = "find_generic_triples_multi_criteria"
    /\ ValidSource(call.source)
    /\ call.left_labels = <<NSUBJ, NSUBJPASS>>
    /\ call.right_labels = <<DOBJ, PREP>>
    /\ Len(result.out) = 4
    /\ <<result.out[1][1].label, result.out[1][3].label>> = <<NSUBJ, DOBJ>>
    /\ <<result.out[2][1].label, result.out[2][3].label>> = <<NSUBJ, PREP>>
    /\ <<result.out[3][1].label, result.out[3][3].label>> = <<NSUBJPASS, DOBJ>>
    /\ <<result.out[4][1].label, result.out[4][3].label>> = <<NSUBJPASS, PREP>>

MatcherOps == {"find_generic_triples", "find_generic_triples_multi_criteria",
               "find_verb_triples"}

\* C5 as stated: whatever its other arguments, a matcher given what is
\* neither a Document nor a Sentence signals the error, and yields nothing
\* before.
C5_InvalidSourceAlwaysRaises ==
    (call.op \in MatcherOps /\ ~ValidSource(call.source)) =>
        result = Yielded(<<>>, "TypeError")

\* The call gets as far as advancing a find_generic_triples generator.
ReachesGenericMatcher ==
    CASE call.op = "find_generic_triples" -> TRUE
      [] call.op = "find_generic_triples_multi_criteria" ->
            /\ call.left_labels # <<>>
            /\ call.head_pos_tags # <<>>
            /\ call.right_labels # <<>>
      [] call.op = "find_verb_triples" -> call.active_voice \/ call.passive_voice

\* C5, amended: the error is signalled, before any triple, by
\* find_generic_triples always, by find_generic_triples_multi_criteria when
\* none of its three lists is empty and by find_verb_triples when a voice
\* flag is true; otherwise the matcher yields nothing and signals no error.
C5_InvalidSourceRaisesWhenMatched ==
    (call.op \in MatcherOps /\ ~ValidSource(call.source)) =>
        /\ result.out = <<>>
        /\ result.raised = (IF ReachesGenericMatcher THEN "TypeError" ELSE NoError)

\* A Tree was handed to the multi-criteria matcher with two labels on each
\* side, and the TypeError came.
C5_Witness ==
    /\ call.op = "find_generic_triples_multi_criteria"
    /\ "children" \in DOMAIN call.source
    /\ Len(call.left_labels) = 2
    /\ Len(call.right_labels) = 2
    /\ call.head_pos_tags # <<>>
    /\ result = Yielded(<<>>, "TypeError")

(***************************************************************************)
(* The verb triples of sentences with every label they look for.           *)
(***************************************************************************)
VerbLabels == {NSUBJ, NSUBJPASS, DOBJ, POBJ, PREP}

InitVerb ==
    /\ response \in TreeResponses(VerbLabels)
    /\ doc = None
    /\ call = NoCall
    /\ result = None

NextVerb == CreateDocument \/ FindVerbTriples \/ Return

SpecVerb == InitVerb /\ [][NextVerb]_vars

ActiveTriples(source) ==
    find_generic_triples_multi_criteria(source, <<NSUBJ>>, <<VERB>>, <<DOBJ, PREP>>).out
PassiveTriples(source) ==
    find_generic_triples_multi_criteria(source, <<NSUBJPASS>>, <<VERB>>, <<POBJ, PREP>>).out

\* C4: for a Document or a Sentence, both voices give the triples of the
\* active voice alone followed by those of the passive voice alone, the
\* active ones being the multi-criteria match of [NSUBJ], [VERB],
\* [DOBJ, PREP] and the passive ones that of [NSUBJPASS], [VERB],
\* [POBJ, PREP]; neither voice gives nothing.
C4_VoicesCompose ==
    (call.op = "find_verb_triples" /\ ValidSource(call.source)) =>
        /\ result.raised = NoError
        /\ (call.active_voice /\ call.passive_voice) =>
               result.out = find_verb_triples(call.source, TRUE, FALSE).out
                            \o find_verb_triples(call.source, FALSE, TRUE).out
        /\ (call.active_voice /\ ~call.passive_voice) =>
               result.out = ActiveTriples(call.source)
        /\ (~call.active_voice /\ call.passive_voice) =>
               result.out = PassiveTriples(call.source)
        /\ (~call.active_voice /\ ~call.passive_voice) => result.out = <<>>

\* Both voices of a document with a triple of each.
C4_Witness ==
    /\ call.op = "find_verb_triples"
    /\ IsDocument(call.source)
    /\ call.active_voice
    /\ call.passive_voice
    /\ ActiveTriples(call.source) # <<>>
    /\ PassiveTriples(call.source) # <<>>
    /\ Len(result.out) = Len(ActiveTriples(call.source)) + Len(PassiveTriples(call.source))
    /\ result.out[1][1].label = NSUBJ
    /\ result.out[Len(result.out)][1].label = NSUBJPASS

====
